---- MODULE Spec2Model ----
(***************************************************************************)
(* State-machine model of src/CatBoost.py, a Streamlit script.             *)
(*                                                                         *)
(* Streamlit executes the script from its first line to its last once at   *)
(* process start and again after every widget interaction.  The values of  *)
(* the widgets (the session) and the files on disk survive from one run of *)
(* the script to the next; the script's own names (model, inputs,          *)
(* features_df, prediction, mae, ...) are bound afresh by every run.       *)
(*                                                                         *)
(* Numbers.  Feature values are fixed-point: a float is held in hundredths *)
(* (AGE = 18.0 is 1800, CL = 3.85 is 385), an int is held as itself.  A    *)
(* prediction is held in thousandths of a mg/L and its "{:.2f}" rendering  *)
(* in hundredths.  The accuracy lists are held in tenths and the metrics   *)
(* are exact fractions <<numerator, denominator>>.                         *)
(*                                                                         *)
(* The file ends inside the statement that follows the metrics (line 161): *)
(* the model follows the script up to the computation of mae, mse and r2   *)
(* (line 153).  The pickled model file is taken to be present, so that     *)
(* joblib.load returns.                                                    *)
(***************************************************************************)
EXTENDS Integers, Sequences, FiniteSets

VARIABLES
    session,      \* widget state kept by Streamlit across runs: name -> <<>> | <<value>>
    raw,          \* what the user supplied in the interaction that started this run
    clicked,      \* whether st.button("Predict") is pressed in this run
    pc,           \* position of the running script
    loads,        \* number of joblib.load executions of this process
    model,        \* the object bound to model / best_model (0: unbound)
    inputs,       \* the dict inputs, in insertion order
    features_df,  \* the one-row DataFrame, column by column
    prediction,   \* <<>> (unbound) | <<value of best_model.predict(...)[0]>>
    shap_values,  \* <<>> (unbound) | <<object the values were computed from>>
    exc,          \* the statement whose exception was raised in this run
    display,      \* the elements this run has put on the page, in order
    png,          \* content of prediction_text.png on disk: <<>> | <<text>>
    mae, mse, r2  \* the metrics: <<>> (unbound) | a fraction

vars == <<session, raw, clicked, pc, loads, model, inputs, features_df,
          prediction, shap_values, exc, display, png, mae, mse, r2>>

\* Script runs of one process that the model follows.
MaxRuns == 3

\* ---------------------------------------------------------------- values

FloatVal(h) == [kind |-> "float", v |-> h]
IntVal(n) == [kind |-> "int", v |-> n]

\* Truncation toward zero of a value held in hundredths.
Trunc(h) == IF h >= 0 THEN h \div 100 ELSE -((-h) \div 100)

\* pandas astype(int): a float column is truncated to an integer column.
astype_int(x) == IF x.kind = "int" THEN x ELSE IntVal(Trunc(x.v))

\* ---------------------------------------------------------------- schema

\* The dict feature_ranges, in its declared (insertion) order.
feature_ranges ==
    << [name |-> "SEX", type |-> "categorical", options |-> <<0, 1>>, default |-> 0],
       [name |-> "AGE", type |-> "numerical", min |-> 0, max |-> 1800, default |-> 500],
       [name |-> "WT", type |-> "numerical", min |-> 0, max |-> 10000, default |-> 2500],
       [name |-> "Single_Dose", type |-> "numerical", min |-> 0, max |-> 6000, default |-> 1500],
       [name |-> "Daily_Dose", type |-> "numerical", min |-> 0, max |-> 240000, default |-> 45000],
       [name |-> "SCR", type |-> "numerical", min |-> 0, max |-> 15000, default |-> 3000],
       [name |-> "CLCR", type |-> "numerical", min |-> 0, max |-> 20000, default |-> 9000],
       [name |-> "BUN", type |-> "numerical", min |-> 0, max |-> 5000, default |-> 500],
       [name |-> "ALT", type |-> "numerical", min |-> 0, max |-> 15000, default |-> 1800],
       [name |-> "AST", type |-> "numerical", min |-> 0, max |-> 15000, default |-> 1800],
       [name |-> "CL", type |-> "numerical", min |-> 0, max |-> 10000, default |-> 385],
       [name |-> "V", type |-> "numerical", min |-> 0, max |-> 100000, default |-> 1000] >>

NFeatures == Len(feature_ranges)

FeatureNames == {feature_ranges[i].name : i \in 1..NFeatures}

\* feature_ranges[feature]
Config(feature) ==
    feature_ranges[CHOOSE i \in 1..NFeatures : feature_ranges[i].name = feature]

\* list.index(x): the first position holding x.
ListIndex(list, x) ==
    CHOOSE i \in 1..Len(list) : list[i] = x /\ \A j \in 1..(i - 1) : list[j] # x

SeqRange(s) == {s[i] : i \in 1..Len(s)}

\* Membership of a value in the declared domain of its feature.
InDomain(config, x) ==
    IF config.type = "numerical"
    THEN config.min <= x.v /\ x.v <= config.max
    ELSE x.v \in SeqRange(config.options)

\* --------------------------------------------------------------- widgets

\* number_input called with value=config["min"] in place of the default.
number_input_value_min(config, state) ==
    IF state = <<>> THEN FloatVal(config.min) ELSE state[1]

\* st.sidebar.number_input(min_value, max_value, value=default) called by the
\* script: the value the user committed, or the value argument when none was.
\* min, max and default are floats, so the widget returns a float.
number_input(config, state) ==
    IF state = <<>> THEN FloatVal(config.default) ELSE state[1]

\* st.sidebar.selectbox(options, index=options.index(default)): the option the
\* user picked, or the option at the index argument when none was.
selectbox(config, state) ==
    IF state = <<>>
    THEN IntVal(config.options[ListIndex(config.options, config.default)])
    ELSE state[1]

\* A number_input declared without max_value: nothing above is refused.
NumberInputCommitNoMax(config, state, h) ==
    IF config.min <= h
    THEN {<<FloatVal(h)>>}
    ELSE {state, <<FloatVal(config.min)>>}

\* The widget states that may follow the user entering h in a number_input
\* declared with min_value and max_value.  A value inside [min, max] is
\* committed as entered.  What the front end does with a value outside is
\* not decided by the script: it either refuses the entry, keeping the state,
\* or commits the nearest bound.
NumberInputCommit(config, state, h) ==
    IF config.min <= h /\ h <= config.max
    THEN {<<FloatVal(h)>>}
    ELSE {state, <<FloatVal(IF h < config.min THEN config.min ELSE config.max)>>}

\* The values a user enters into a number_input: one below the minimum, both
\* bounds, one above the maximum (for AGE: -1, 0, 18 and 19).
Entries(config) ==
    {config.min - 100, config.min, config.max, config.max + 100}

\* ------------------------------------------------------------ the model

\* Values best_model.predict may return, in thousandths of a mg/L.  The
\* regressor is opaque: any of them may come back for any record.
PredValues == {12344, 98766}

\* f"{prediction:.2f}" of a value held in thousandths: the nearest hundredth,
\* a tie going to the even one.
Fmt2(p) ==
    LET q == p \div 10
        r == p % 10
    IN  IF r > 5 \/ (r = 5 /\ q % 2 = 1) THEN q + 1 ELSE q

\* ------------------------------------------------------------ exceptions

\* The statements of the Predict branch that call into a library and may
\* raise, by the try block that encloses them.
InnerTry == {"explain", "plot"}
OuterTry == {"predict", "render", "save", "image"}

\* The outer try opened after the call of predict instead of before it.
HandlerPredictOutsideTry(origin) ==
    IF origin \in InnerTry THEN "shap_except"
    ELSE IF origin \in OuterTry \ {"predict"} THEN "pred_except"
    ELSE "aborted"

\* Where control goes when the statement `origin` raises an Exception: to the
\* except clause of the innermost enclosing try, and out of the script when
\* there is none.
Handler(origin) ==
    IF origin \in InnerTry THEN "shap_except"
    ELSE IF origin \in OuterTry THEN "pred_except"
    ELSE "aborted"

Raise(origin) ==
    /\ exc' = origin
    /\ pc' = Handler(origin)

\* ------------------------------------------------------------- elements

Element(kind, text, val) == [kind |-> kind, text |-> text, val |-> val]

\* The four SHAP plots, in the order the script draws them.
PlotNames == <<"SHAP Force Plot", "SHAP Summary Plot",
               "SHAP Feature Importance", "SHAP Decision Plot">>

Plots(k) == [i \in 1..k |-> Element("plot", PlotNames[i], <<>>)]

\* ------------------------------------------------------------- metrics

true_values == <<10, 20, 30, 40, 50>>
predicted_values == <<11, 21, 29, 41, 51>>

RECURSIVE SumSeq(_)
SumSeq(s) == IF s = <<>> THEN 0 ELSE s[1] + SumSeq(Tail(s))

Abs(x) == IF x < 0 THEN -x ELSE x

\* sklearn.metrics.mean_absolute_error on lists held in tenths.
mean_absolute_error(t, p) ==
    <<SumSeq([i \in 1..Len(t) |-> Abs(t[i] - p[i])]), Len(t) * 10>>

\* Residual sum of squares, in hundredths.
SSRes(t, p) == SumSeq([i \in 1..Len(t) |-> (t[i] - p[i]) * (t[i] - p[i])])

\* sklearn.metrics.mean_squared_error on lists held in tenths.
mean_squared_error(t, p) == <<SSRes(t, p), Len(t) * 100>>

\* n * n times the total sum of squares about the mean, in hundredths: the
\* mean SumSeq(t) / n need not be a whole number of tenths.
SSTotN2(t) ==
    SumSeq([i \in 1..Len(t) |->
              (Len(t) * t[i] - SumSeq(t)) * (Len(t) * t[i] - SumSeq(t))])

\* r2_score called with its arguments exchanged: the total sum of squares is
\* taken about the mean of the predictions.
r2_score_swapped(t, p) ==
    <<SSTotN2(p) - Len(p) * Len(p) * SSRes(p, t), SSTotN2(p)>>

\* sklearn.metrics.r2_score: 1 - SSRes / SSTot, as one fraction.
r2_score(t, p) ==
    <<SSTotN2(t) - Len(t) * Len(t) * SSRes(t, p), SSTotN2(t)>>

\* Equality of two fractions.
FracEq(a, b) == a[1] * b[2] = b[1] * a[2]

\* ------------------------------------------------------------ the script

Init ==
    /\ session = [f \in FeatureNames |-> <<>>]
    /\ raw = <<>>
    /\ clicked = FALSE
    /\ pc = "load"
    /\ loads = 0
    /\ model = 0
    /\ inputs = <<>>
    /\ features_df = <<>>
    /\ prediction = <<>>
    /\ shap_values = <<>>
    /\ exc = "none"
    /\ display = <<>>
    /\ png = <<>>
    /\ mae = <<>>
    /\ mse = <<>>
    /\ r2 = <<>>

\* model = joblib.load(model_path); best_model = model.best_estimator_
\* Every execution deserialises the file into a new object.
Load ==
    /\ pc = "load"
    /\ loads' = loads + 1
    /\ model' = loads + 1
    /\ pc' = "page"
    /\ UNCHANGED <<session, raw, clicked, inputs, features_df, prediction,
                   shap_values, exc, display, png, mae, mse, r2>>

\* st.set_page_config, st.title, st.write, the sidebar's header.
Page ==
    /\ pc = "page"
    /\ display' = Append(display, Element("title", "Concentration Prediction", <<>>))
    /\ pc' = "inputs"
    /\ UNCHANGED <<session, raw, clicked, loads, model, inputs, features_df,
                   prediction, shap_values, exc, png, mae, mse, r2>>

\* The value the script gets from the widget of feature number i.
WidgetValue(i) ==
    LET config == feature_ranges[i]
    IN  IF config.type = "numerical"
        THEN number_input(config, session[config.name])
        ELSE selectbox(config, session[config.name])

\* inputs = {}; for feature, config in feature_ranges.items(): inputs[feature] = ...
BuildInputs ==
    /\ pc = "inputs"
    /\ inputs' = [i \in 1..NFeatures |->
                    [name |-> feature_ranges[i].name, value |-> WidgetValue(i)]]
    /\ pc' = "frame"
    /\ UNCHANGED <<session, raw, clicked, loads, model, features_df, prediction,
                   shap_values, exc, display, png, mae, mse, r2>>

\* A numerical column listed among the categorical ones.
cat_features_with_CL == <<"SEX", "CL">>

\* The columns the script converts to int.
cat_features == <<"SEX">>

\* features_df = pd.DataFrame([inputs]): one column per key, in the dict's
\* order; features_df[cat_features] = features_df[cat_features].astype(int)
Frame ==
    /\ pc = "frame"
    /\ features_df' =
         [i \in 1..Len(inputs) |->
            IF inputs[i].name \in SeqRange(cat_features)
            THEN [name |-> inputs[i].name, value |-> astype_int(inputs[i].value)]
            ELSE inputs[i]]
    /\ pc' = "button"
    /\ UNCHANGED <<session, raw, clicked, loads, model, inputs, prediction,
                   shap_values, exc, display, png, mae, mse, r2>>

\* if st.button("Predict"):
Button ==
    /\ pc = "button"
    /\ pc' = IF clicked THEN "predict" ELSE "accuracy"
    /\ UNCHANGED <<session, raw, clicked, loads, model, inputs, features_df,
                   prediction, shap_values, exc, display, png, mae, mse, r2>>

\* prediction = best_model.predict(features_df)[0]
Predict ==
    /\ pc = "predict"
    /\ \/ /\ \E p \in PredValues : prediction' = <<p>>
          /\ pc' = "render"
          /\ UNCHANGED exc
       \/ /\ Raise("predict")
          /\ UNCHANGED prediction
    /\ UNCHANGED <<session, raw, clicked, loads, model, inputs, features_df,
                   shap_values, display, png, mae, mse, r2>>

\* st.header("Prediction Result"); st.success(f"... {prediction:.2f} mg/L.")
Render ==
    /\ pc = "render"
    /\ \/ /\ display' = display \o
                 << Element("header", "Prediction Result", <<>>),
                    Element("success", "predicted concentration", <<Fmt2(prediction[1])>>) >>
          /\ pc' = "save"
          /\ UNCHANGED exc
       \/ /\ Raise("render")
          /\ UNCHANGED display
    /\ UNCHANGED <<session, raw, clicked, loads, model, inputs, features_df,
                   prediction, shap_values, png, mae, mse, r2>>

\* A failure of savefig swallowed: the file stays as an earlier run left it
\* and the script goes on to show it.
SaveFigureSwallowed ==
    /\ pc = "save"
    /\ \/ png' = <<Fmt2(prediction[1])>>
       \/ UNCHANGED png
    /\ pc' = "image"
    /\ UNCHANGED <<session, raw, clicked, loads, model, inputs, features_df,
                   prediction, shap_values, exc, display, mae, mse, r2>>

\* plt.subplots, ax.text(f"Predicted Concentration: {prediction:.2f} mg/L"),
\* plt.savefig("prediction_text.png")
SaveFigure ==
    /\ pc = "save"
    /\ \/ /\ png' = <<Fmt2(prediction[1])>>
          /\ pc' = "image"
          /\ UNCHANGED exc
       \/ /\ Raise("save")
          /\ UNCHANGED png
    /\ UNCHANGED <<session, raw, clicked, loads, model, inputs, features_df,
                   prediction, shap_values, display, mae, mse, r2>>

\* st.image("prediction_text.png", use_column_width=True): shows the file
\* as it is on disk.
ShowImage ==
    /\ pc = "image"
    /\ \/ /\ display' = Append(display, Element("image", "prediction_text.png", png))
          /\ pc' = "explain"
          /\ UNCHANGED exc
       \/ /\ Raise("image")
          /\ UNCHANGED display
    /\ UNCHANGED <<session, raw, clicked, loads, model, inputs, features_df,
                   prediction, shap_values, png, mae, mse, r2>>

\* explainer = shap.TreeExplainer(best_model)
\* shap_values = explainer.shap_values(features_df)
Explain ==
    /\ pc = "explain"
    /\ \/ /\ shap_values' = <<model>>
          /\ pc' = "plots"
          /\ UNCHANGED exc
       \/ /\ Raise("explain")
          /\ UNCHANGED shap_values
    /\ UNCHANGED <<session, raw, clicked, loads, model, inputs, features_df,
                   prediction, display, png, mae, mse, r2>>

\* The force, summary, importance and decision plots: all four are drawn, or
\* the first k of them are and drawing the next one raises.
DrawPlots ==
    /\ pc = "plots"
    /\ \/ /\ display' = display \o Plots(Len(PlotNames))
          /\ pc' = "accuracy"
          /\ UNCHANGED exc
       \/ /\ \E k \in 0..(Len(PlotNames) - 1) : display' = display \o Plots(k)
          /\ Raise("plot")
    /\ UNCHANGED <<session, raw, clicked, loads, model, inputs, features_df,
                   prediction, shap_values, png, mae, mse, r2>>

\* except Exception as e: st.error(f"An error occurred during SHAP visualization: {e}")
ShapExcept ==
    /\ pc = "shap_except"
    /\ display' = Append(display, Element("error", "SHAP visualization", <<>>))
    /\ pc' = "accuracy"
    /\ UNCHANGED <<session, raw, clicked, loads, model, inputs, features_df,
                   prediction, shap_values, exc, png, mae, mse, r2>>

\* except Exception as e: st.error(f"An error occurred during prediction: {e}")
PredExcept ==
    /\ pc = "pred_except"
    /\ display' = Append(display, Element("error", "prediction", <<>>))
    /\ pc' = "accuracy"
    /\ UNCHANGED <<session, raw, clicked, loads, model, inputs, features_df,
                   prediction, shap_values, exc, png, mae, mse, r2>>

\* st.header("Prediction Accuracy"), st.write, the scatter plot's axes.
Accuracy ==
    /\ pc = "accuracy"
    /\ display' = Append(display, Element("header", "Prediction Accuracy", <<>>))
    /\ pc' = "metrics"
    /\ UNCHANGED <<session, raw, clicked, loads, model, inputs, features_df,
                   prediction, shap_values, exc, png, mae, mse, r2>>

\* mae = mean_absolute_error(...); mse = mean_squared_error(...); r2 = r2_score(...)
Metrics ==
    /\ pc = "metrics"
    /\ mae' = mean_absolute_error(true_values, predicted_values)
    /\ mse' = mean_squared_error(true_values, predicted_values)
    /\ r2' = r2_score(true_values, predicted_values)
    /\ pc' = "done"
    /\ UNCHANGED <<session, raw, clicked, loads, model, inputs, features_df,
                   prediction, shap_values, exc, display, png>>

\* ---------------------------------------------------------- interactions

\* The script has run to its end, or an exception left it.
RunEnded == pc \in {"done", "aborted"}

\* Streamlit starts the next run of the script: the page is rebuilt and the
\* script's names are unbound; the session and the files on disk stay.
Rerun ==
    /\ RunEnded
    /\ loads < MaxRuns
    /\ pc' = "load"
    /\ model' = 0
    /\ inputs' = <<>>
    /\ features_df' = <<>>
    /\ prediction' = <<>>
    /\ shap_values' = <<>>
    /\ exc' = "none"
    /\ display' = <<>>
    /\ mae' = <<>>
    /\ mse' = <<>>
    /\ r2' = <<>>
    /\ UNCHANGED <<loads, png>>

\* The user enters a number into the number_input of a numerical feature.
EnterNumber ==
    /\ \E i \in 1..NFeatures :
         /\ feature_ranges[i].type = "numerical"
         /\ \E h \in Entries(feature_ranges[i]) :
              /\ \E s \in NumberInputCommit(feature_ranges[i],
                                            session[feature_ranges[i].name], h) :
                   session' = [session EXCEPT ![feature_ranges[i].name] = s]
              /\ raw' = <<[feature |-> feature_ranges[i].name, value |-> FloatVal(h)]>>
    /\ clicked' = FALSE
    /\ Rerun

\* The user picks one of the options of the selectbox of a categorical feature.
PickOption ==
    /\ \E i \in 1..NFeatures :
         /\ feature_ranges[i].type = "categorical"
         /\ \E o \in SeqRange(feature_ranges[i].options) :
              /\ session' = [session EXCEPT ![feature_ranges[i].name] = <<IntVal(o)>>]
              /\ raw' = <<[feature |-> feature_ranges[i].name, value |-> IntVal(o)]>>
    /\ clicked' = FALSE
    /\ Rerun

\* The user presses the Predict button.
ClickPredict ==
    /\ clicked' = TRUE
    /\ raw' = <<>>
    /\ UNCHANGED session
    /\ Rerun

Next ==
    \/ Load \/ Page \/ BuildInputs \/ Frame \/ Button
    \/ Predict \/ Render \/ SaveFigure \/ ShowImage
    \/ Explain \/ DrawPlots \/ ShapExcept \/ PredExcept
    \/ Accuracy \/ Metrics
    \/ EnterNumber \/ PickOption \/ ClickPredict

Spec == Init /\ [][Next]_vars

\* ================================================================ claims

\* The record has been built by this run.
RecordBuilt == features_df # <<>>

\* features_df[name] of the one row.
Column(name) ==
    features_df[CHOOSE i \in 1..Len(features_df) : features_df[i].name = name].value

\* The value supplied by the interaction that started this run lies in the
\* declared domain of its feature.
RawInDomain == InDomain(Config(raw[1].feature), raw[1].value)

Shown(kind, text) ==
    \E i \in 1..Len(display) : display[i].kind = kind /\ display[i].text = text

\* ---------------------------------------------------------------- C1

AllDefaults ==
    [i \in 1..NFeatures |->
       [name |-> feature_ranges[i].name,
        value |-> IF feature_ranges[i].type = "numerical"
                  THEN FloatVal(feature_ranges[i].default)
                  ELSE IntVal(feature_ranges[i].default)]]

\* C2: every feature for which no value was supplied holds its declared
\* default in the record, and the record built when no value at all was
\* supplied is the all-defaults record.
C2_DefaultsFilled ==
    RecordBuilt =>
        /\ Len(features_df) = NFeatures
        /\ \A i \in 1..NFeatures :
             session[feature_ranges[i].name] = <<>> => features_df[i] = AllDefaults[i]
        /\ (\A f \in FeatureNames : session[f] = <<>>) => features_df = AllDefaults

\* Nothing was supplied and the record is built.
C2_Witness ==
    /\ \A f \in FeatureNames : session[f] = <<>>
    /\ raw = <<>>
    /\ RecordBuilt
    /\ features_df = AllDefaults

\* ---------------------------------------------------------------- C3

\* C3: a run of the script never ends before the accuracy report: whatever
\* the Predict branch did, the run ends at the end of the script with the
\* accuracy section shown and MAE, MSE and R2 computed, and until then the
\* script always has a next step.
C3_AccuracyReached ==
    /\ RunEnded =>
         /\ pc = "done"
         /\ Shown("header", "Prediction Accuracy")
         /\ mae # <<>> /\ mse # <<>> /\ r2 # <<>>
    /\ ~RunEnded => ENABLED Next

\* A run in which best_model.predict raised has ended with the metrics computed.
C3_Witness ==
    /\ pc = "done"
    /\ clicked
    /\ exc = "predict"
    /\ r2 # <<>>

\* ---------------------------------------------------------------- C4

\* C4: a prediction is on the page (as text or as the saved image) only if
\* best_model.predict returned in this run, and it is the two-decimal
\* rendering of the value returned; when predict raised, no prediction is
\* bound or shown and the handler puts the prediction error on the page.
C4_NoSubstitutedPrediction ==
    /\ \A i \in 1..Len(display) :
         display[i].kind \in {"success", "image"} =>
             /\ prediction # <<>>
             /\ display[i].val = <<Fmt2(prediction[1])>>
    /\ exc = "predict" =>
         /\ prediction = <<>>
         /\ \A i \in 1..Len(display) : display[i].kind \notin {"success", "image"}
         /\ pc \in {"accuracy", "metrics", "done"} => Shown("error", "prediction")

\* predict raised in a run that follows one whose prediction is still on disk.
C4_Witness ==
    /\ exc = "predict"
    /\ pc = "done"
    /\ png # <<>>
    /\ Shown("error", "prediction")

\* ---------------------------------------------------------------- C6

\* C6 as stated: MAE = 0.10, MSE = 0.01 and the exact R2 is
\* 1 - 0.04 / 10.0 = 0.996.
C6_ExactR2Is0996 ==
    r2 # <<>> =>
        /\ FracEq(mae, <<10, 100>>)
        /\ FracEq(mse, <<1, 100>>)
        /\ FracEq(r2, <<996, 1000>>)

\* C6 as amended: MAE = 0.10, MSE = 0.01 and R2 = 1 - 0.05 / 10.0 = 0.995
\* exactly: the residual sum of squares is 0.05 (five squares of 0.01) and
\* the total sum of squares is 10.0.
C6_ExactR2Is0995 ==
    r2 # <<>> =>
        /\ FracEq(mae, <<10, 100>>)
        /\ FracEq(mse, <<1, 100>>)
        /\ FracEq(r2, <<995, 1000>>)
        /\ FracEq(<<r2[2] - r2[1], r2[2]>>, <<5, 1000>>)
        /\ SSRes(true_values, predicted_values) = 5
        /\ SSTotN2(true_values) = Len(true_values) * Len(true_values) * 1000

\* The run has computed the three metrics.
C6_Witness ==
    /\ pc = "done"
    /\ mae # <<>> /\ mse # <<>> /\ r2 # <<>>

\* ---------------------------------------------------------------- C8

\* C8 as stated: the model is loaded from storage once in the life of the
\* process, and the object bound to model is never replaced.
C8_LoadedOnce == loads <= 1

\* ---------------------------------------------------------------- C9

\* C9: the record handed to the model has one column per schema feature, in
\* the schema's order; a categorical column holds the integer code of the
\* widget's value and a numerical column holds the widget's value unchanged.
C9_RecordShape ==
    RecordBuilt =>
        /\ Len(features_df) = NFeatures
        /\ \A i \in 1..NFeatures :
             /\ features_df[i].name = feature_ranges[i].name
             /\ feature_ranges[i].type = "categorical" =>
                  /\ features_df[i].value.kind = "int"
                  /\ features_df[i].value.v = WidgetValue(i).v
             /\ feature_ranges[i].type = "numerical" =>
                  features_df[i].value = WidgetValue(i)

\* SEX = 1 was picked and the record is at best_model.predict with SEX the
\* integer 1.
C9_Witness ==
    /\ pc = "predict"
    /\ session["SEX"] = <<IntVal(1)>>
    /\ Column("SEX") = IntVal(1)
    /\ Column("CL") = FloatVal(385)

\* --------------------------------------------------------------- C10

\* C10 as stated: the prediction error is on the page only if
\* best_model.predict itself raised.
C10_ErrorScopedToPredict ==
    Shown("error", "prediction") => exc = "predict"

====
